---- MODULE Spec2Model ----
(***************************************************************************)
(* Model of src/app.js: the base page controller (HospitalApp), the        *)
(* dashboard controller (HomePage), the global refreshData trigger and the *)
(* DOMContentLoaded bootstrap.                                             *)
(*                                                                         *)
(* Granularity.  JavaScript runs one task at a time and drains the         *)
(* microtask queue after it, so every action below is one task of the      *)
(* event loop (a DOM event, a network response, a timer) together with     *)
(* all promise continuations it makes runnable.  One HTTP response drives  *)
(* both awaits of fetchFromAPI (the fetch and response.json()); nothing of *)
(* the program's state changes between the two.                            *)
(***************************************************************************)
EXTENDS Integers, Sequences, FiniteSets, TLC

(***************************************************************************)
(* Bounds of the exploration.                                              *)
(***************************************************************************)
\* HomePage.loadData passes started in one behaviour.
MaxPass == 2
\* Invocations of refreshData in one behaviour.
MaxRefresh == 1
\* Responses in one behaviour that differ from {success:true, data:[]}.
MaxOdd == 1
\* loadData passes with a call still pending at one time.
MaxInFlight == 1
\* Clicks on the close button of a notification in one behaviour.
MaxDismiss == 1
\* Render targets absent from the page.
MaxMissing == 1

(***************************************************************************)
(* Program constants.                                                      *)
(***************************************************************************)
ErrorToastDelay == 5000
SuccessToastDelay == 3000

(***************************************************************************)
(* Values.  A JavaScript value that is either undefined or an array is a   *)
(* record; a missing field of a record is the marker Absent.               *)
(***************************************************************************)
Absent == "<absent>"
Undefined == [isSeq |-> FALSE, items |-> <<>>]
Arr(s) == [isSeq |-> TRUE, items |-> s]

Slots == {"doctors", "clinics", "roster", "notifications", "schedule", "oncall"}
Routines == {"stats", "schedule", "oncall"}
SlotsOf(r) ==
    IF r = "stats" THEN {"doctors", "clinics", "roster", "notifications"} ELSE {r}
RoutineOf(s) == IF s \in {"schedule", "oncall"} THEN s ELSE "stats"

CountTargets == {"doctor-count", "clinic-count", "roster-count", "notification-count"}
Targets == CountTargets \cup {"today-schedule", "on-call-today", "last-updated"}

(***************************************************************************)
(* The remote endpoint: the responses it may give to each call.            *)
(***************************************************************************)
Messages == {"X", "Y"}
Resp(kind, msg, data) == [kind |-> kind, msg |-> msg, data |-> data]
PlainResp == Resp("data", "", <<>>)
FailureResps ==
    {Resp("http", "", <<>>), Resp("malformed", "", <<>>)}
        \cup {Resp("apierr", m, <<>>) : m \in Messages}

Doc == [null |-> FALSE, Name |-> "Dr"]
\* A comma-separated string of names, as the sequence of its fields; NoStr is
\* the field that is missing from the record.
Str(names) == [isStr |-> TRUE, names |-> names]
NoStr == [isStr |-> FALSE, names |-> <<>>]
EntENT == [null |-> FALSE, Clinic |-> "ENT", Consultants |-> Str(<<"A", "B", "C">>),
           Status |-> "Sent"]
EntEye == [null |-> FALSE, Clinic |-> "Eye", Consultants |-> Str(<<"D">>),
           Status |-> Absent]
EntLab == [null |-> FALSE, Clinic |-> "Lab", Consultants |-> NoStr, Status |-> "Sent"]
EntNull == [null |-> TRUE, Clinic |-> Absent, Consultants |-> NoStr, Status |-> Absent]
Note(st) == [null |-> FALSE, Status |-> st]
NoteNull == [null |-> TRUE, Status |-> Absent]
Call(d) == [null |-> FALSE, Date |-> d, ConsultantOnCall |-> "K",
            SeniorRegistrarOnCall |-> "S", RegistrarOnCall |-> "R"]

\* A date-like value: whether it parses, and the calendar day of the instant
\* it denotes in UTC and in the browser's local time zone.
Date(ok, u, l) == [valid |-> ok, utcDay |-> u, localDay |-> l]
\* The current instant (new Date()).
Now == Date(TRUE, 1, 1)
DToday == Date(TRUE, 1, 1)
DOther == Date(TRUE, 2, 2)
\* Local day 1, but still day 0 in UTC (just after local midnight, east of UTC).
DEdge == Date(TRUE, 0, 1)
DBad == Date(FALSE, 0, 0)

DataOf(s) ==
    CASE s \in {"doctors", "clinics"} -> {<<Doc>>, <<Doc, Doc>>}
      [] s \in {"roster", "schedule"} ->
            {<<EntENT>>, <<EntENT, EntEye>>, <<EntLab>>, <<EntNull>>}
      [] s = "notifications" ->
            {<<Note("Pending")>>, <<Note("pending"), Note("Pending")>>,
             <<Note("Sent"), Note(Absent)>>, <<Note("Pending"), NoteNull>>}
      [] s = "oncall" ->
            {<<Call(DToday)>>, <<Call(DOther), Call(DToday)>>,
             <<Call(DOther)>>, <<Call(DEdge)>>, <<Call(DBad)>>}

Responses(s) ==
    {PlainResp, Resp("nodata", "", <<>>)} \cup FailureResps
        \cup {Resp("data", "", d) : d \in DataOf(s)}

(***************************************************************************)
(* fetchFromAPI, lines 44-63.  An outcome is the response of the endpoint, *)
(* or UrlFail when new URL(API_URL) throws before any request is made.     *)
(***************************************************************************)
UrlFail == Resp("urlfail", "", <<>>)

\* Whether the try block throws (lines 46, 52, 54, 55).
Throws(o) == o.kind \in {"urlfail", "http", "malformed", "apierr"}

\* error.message of the error caught at line 58.
ErrorMessage(o) ==
    CASE o.kind = "urlfail" -> "Invalid URL"
      [] o.kind = "http" -> "HTTP error! status: 500"
      [] o.kind = "malformed" -> "Unexpected token < in JSON"
      [] o.kind = "apierr" -> o.msg
      [] OTHER -> ""

\* The value the promise of fetchFromAPI fulfils with (lines 57 and 61).
FetchReturn(o) ==
    IF Throws(o) THEN Arr(<<>>)
    ELSE IF o.kind = "nodata" THEN Undefined
    ELSE Arr(o.data)

(***************************************************************************)
(* Notifications.  A toast is an element appended to document.body with    *)
(* its removal timer; src is the call or refresh that created it.          *)
(***************************************************************************)
Toast(kind, text, delay, src) ==
    [kind |-> kind, text |-> text, attached |-> TRUE, timer |-> "pending",
     delay |-> delay, src |-> src]

\* showError, lines 65-91: the toast it appends for a failed outcome.
ErrorToast(o, src) ==
    Toast("error", <<"Failed to load data: ", ErrorMessage(o)>>, ErrorToastDelay, src)

\* Mutant: a non-success status returns [] without reporting it.
ShowErrorNoStatus(o, src) ==
    IF Throws(o) /\ o.kind # "http" THEN <<ErrorToast(o, src)>> ELSE <<>>

\* The toasts of showError for one settled call (line 60): one iff it threw.
ShowError(o, src) == IF Throws(o) THEN <<ErrorToast(o, src)>> ELSE <<>>

\* refreshData, lines 272-285.
SuccessToast(src) ==
    Toast("success", <<"Data refreshed successfully!">>, SuccessToastDelay, src)

(***************************************************************************)
(* Render targets.  A content records what the element shows and, as       *)
(* history, the loadData pass that wrote it (0: never written).            *)
(***************************************************************************)
Content(k, n, items, p) == [k |-> k, n |-> n, items |-> items, by |-> p]
Blank == Content("blank", 0, <<>>, 0)

\* showLoading, lines 93-97.
ShowLoading(d, t, p, pres) ==
    IF t \in pres THEN [d EXCEPT ![t] = Content("loading", 0, <<>>, p)] ELSE d

\* x?.length || 0, lines 188-190.
Count(v) == IF v.isSeq THEN Len(v.items) ELSE 0

\* Mutant: the comparison ignores case.
IsPendingAnyCase(n) == n.Status \in {"Pending", "pending", "PENDING"}

\* n.Status === 'Pending', line 193.
IsPending(n) == n.Status = "Pending"
\* notifications?.filter(n => n.Status === 'Pending').length || 0, lines 192-194.
PendingCount(v) == IF v.isSeq THEN Len(SelectSeq(v.items, IsPending)) ELSE 0

HasNull(v) == v.isSeq /\ \E i \in 1..Len(v.items) : v.items[i].null

\* The count targets loadStats assigns before its try block ends or throws
\* (lines 188-195): writing to a missing element throws, and so does reading
\* Status of a null record.
StatsWritten(v, pres) ==
    LET w1 == "doctor-count" \in pres
        w2 == w1 /\ "clinic-count" \in pres
        w3 == w2 /\ "roster-count" \in pres
        w4 == w3 /\ ~HasNull(v["notifications"]) /\ "notification-count" \in pres
    IN  {t \in CountTargets :
            \/ t = "doctor-count" /\ w1
            \/ t = "clinic-count" /\ w2
            \/ t = "roster-count" /\ w3
            \/ t = "notification-count" /\ w4}

StatsValue(v, t) ==
    CASE t = "doctor-count" -> Count(v["doctors"])
      [] t = "clinic-count" -> Count(v["clinics"])
      [] t = "roster-count" -> Count(v["roster"])
      [] t = "notification-count" -> PendingCount(v["notifications"])

\* loadStats after its Promise.all, lines 188-198.  It always fulfils.
RenderStats(d, p, v, pres) ==
    [t \in Targets |->
        IF t \in StatsWritten(v, pres)
        THEN Content("count", StatsValue(v, t), <<>>, p)
        ELSE d[t]]

Min(a, b) == IF a < b THEN a ELSE b
Falsy(s) == s \in {Absent, ""}

\* item.Consultants?.split(',').slice(0, 2).join(', '), line 221: the fields
\* the subtitle shows; a missing Consultants is interpolated as "undefined".
FirstTwo(c) ==
    IF c.isStr THEN SubSeq(c.names, 1, Min(2, Len(c.names))) ELSE <<"undefined">>

\* One item of the schedule list, lines 218-226.
ScheduleItem(e) ==
    [title |-> e.Clinic,
     names |-> FirstTwo(e.Consultants),
     marker |-> "...",
     class |-> IF e.Status = "Sent" THEN "badge-sent" ELSE "badge-pending",
     badge |-> IF Falsy(e.Status) THEN "Pending" ELSE e.Status]

\* Whether the try block of loadTodaySchedule throws before assigning the
\* container (lines 212 and 217-227): schedule.length of undefined, or a field
\* of a null record.
ScheduleThrows(v) == ~v.isSeq \/ HasNull(v)

\* The content the try block of loadTodaySchedule assigns (lines 212-227).
ScheduleContent(v, p) ==
    IF Len(v.items) = 0 THEN Content("no-data", 0, <<>>, p)
    ELSE Content("items", 0, [i \in 1..Len(v.items) |-> ScheduleItem(v.items[i])], p)

\* loadTodaySchedule after its await, lines 212-230.
RenderSchedule(d, p, v, pres) ==
    IF "today-schedule" \notin pres THEN d
    ELSE [d EXCEPT !["today-schedule"] =
            IF ScheduleThrows(v) THEN Content("error", 0, <<>>, p)
            ELSE ScheduleContent(v, p)]

\* How the promise of loadTodaySchedule settles: with the container missing
\* every assignment throws, the one in the catch block (line 229) included.
ScheduleSettles(pres) ==
    IF "today-schedule" \in pres THEN "fulfilled" ELSE "rejected"

\* new Date(x).toISOString().split('T')[0], lines 239 and 242: the UTC day.
IsoDay(dt) == dt.utcDay

IsToday(e) == IsoDay(e.Date) = IsoDay(Now)

\* Whether the filter of loadOnCallToday throws (lines 241-244): filter of
\* undefined, Date of a null record, toISOString of an invalid date.
OnCallThrows(v) ==
    \/ ~v.isSeq
    \/ HasNull(v)
    \/ \E i \in 1..Len(v.items) : ~v.items[i].Date.valid

\* One item of the on-call list, lines 252-257.
OnCallItem(e) ==
    [title |-> e.ConsultantOnCall,
     team |-> <<e.SeniorRegistrarOnCall, e.RegistrarOnCall>>,
     date |-> e.Date]

\* The content the try block of loadOnCallToday assigns (lines 241-258).
OnCallContent(v, p) ==
    LET todayOnCall == SelectSeq(v.items, IsToday)
    IN  IF Len(todayOnCall) = 0 THEN Content("no-data", 0, <<>>, p)
        ELSE Content("items", 0,
                     [i \in 1..Len(todayOnCall) |-> OnCallItem(todayOnCall[i])], p)

\* loadOnCallToday after its await, lines 238-261.
RenderOnCall(d, p, v, pres) ==
    IF "on-call-today" \notin pres THEN d
    ELSE [d EXCEPT !["on-call-today"] =
            IF OnCallThrows(v) THEN Content("error", 0, <<>>, p)
            ELSE OnCallContent(v, p)]

\* How the promise of loadOnCallToday settles (line 260 throws without container).
OnCallSettles(pres) ==
    IF "on-call-today" \in pres THEN "fulfilled" ELSE "rejected"

\* updateLastUpdated, lines 99-104: n counts the writes, standing for the time.
UpdateLastUpdated(d, pres) ==
    IF "last-updated" \in pres
    THEN [d EXCEPT !["last-updated"] = Content("time", d["last-updated"].n + 1, <<>>, 0)]
    ELSE d

(***************************************************************************)
(* State.                                                                  *)
(***************************************************************************)
VARIABLES
    urlOk,       \* whether new URL(API_URL) succeeds (line 2 is a placeholder)
    present,     \* the render targets the page has
    path,        \* window.location.pathname: "home" or "other"
    booted,      \* whether DOMContentLoaded has fired
    currentApp,  \* window.currentApp: an index of ctrls, 0 while unset
    ctrls,       \* the controllers constructed so far
    passes,      \* the HomePage.loadData invocations so far
    refreshes,   \* the refreshData invocations so far
    dom,         \* the content of every render target
    toasts,      \* the notification elements created so far
    dismissals,  \* clicks on a close button so far
    install,     \* the install affordance and the platform's install events
    worker       \* the page's load event and the offline-asset registrations

vars == <<urlOk, present, path, booted, currentApp, ctrls, passes, refreshes,
          dom, toasts, dismissals, install, worker>>

NoOutcome == Resp("none", "", <<>>)

\* The closure variable deferredPrompt of setupInstallPrompt (line 121):
\* undefined, null, or the beforeinstallprompt event it captured.
NoPrompt == [is |-> "undefined", ev |-> 0]
NullPrompt == [is |-> "null", ev |-> 0]
Captured(e) == [is |-> "event", ev |-> e]
CallSrc(p, s) == [type |-> "call", id |-> p, slot |-> s]
RefreshSrc(r) == [type |-> "refresh", id |-> r, slot |-> ""]
Owner(type, id) == [type |-> type, id |-> id]

\* The part of the state one task and its continuations transform.
World(d, ps, ts, cs, rs) ==
    [dom |-> d, passes |-> ps, toasts |-> ts, ctrls |-> cs, refreshes |-> rs]
Here == World(dom, passes, toasts, ctrls, refreshes)

\* constructor and init up to the await of line 11 (lines 5-11).
NewCtrl(variant) ==
    [variant |-> variant, navWired |-> TRUE, phase |-> "LoadingData",
     init |-> "running", swHooked |-> FALSE, installWired |-> FALSE,
     deferredPrompt |-> NoPrompt, listeners |-> 0]

\* init after the await of line 11 (lines 12-14).
InitDone(c) ==
    [c EXCEPT !.phase = "Ready", !.init = "fulfilled",
              !.swHooked = worker.supported, !.installWired = TRUE]

\* The order in which one loadData calls fetchFromAPI (lines 179-185, 207, 238).
CallOrder == <<"doctors", "clinics", "roster", "notifications", "schedule", "oncall">>

\* Mutant: the routines are awaited one after the other, so only the first
\* has started when loadData first waits.
StartedFirstOnly == {"stats"}

\* The routines loadData starts before it awaits (lines 169-173).
Started == Routines

\* The synchronous part of HomePage.loadData (lines 168-173 with 176-186,
\* 201-210 and 233-238): both list targets show the loading placeholder and the
\* six calls are made; with a bad API_URL each call fails on the spot.
StartPass(W, c, owner) ==
    LET p == Len(W.passes) + 1
        d1 == IF "schedule" \in Started
              THEN ShowLoading(W.dom, "today-schedule", p, present) ELSE W.dom
        d2 == IF "oncall" \in Started
              THEN ShowLoading(d1, "on-call-today", p, present) ELSE d1
        issued == UNION {SlotsOf(r) : r \in Started}
        call(s) == IF s \notin issued THEN [st |-> "unissued", out |-> NoOutcome]
                   ELSE IF urlOk THEN [st |-> "pending", out |-> NoOutcome]
                   ELSE [st |-> "settled", out |-> UrlFail]
        failed == SelectSeq(CallOrder, LAMBDA s : s \in issued /\ ~urlOk)
        errs == [i \in 1..Len(failed) |-> ErrorToast(UrlFail, CallSrc(p, failed[i]))]
        q == [ctrl |-> c, owner |-> owner,
              calls |-> [s \in Slots |-> call(s)],
              routines |-> [r \in Routines |-> "pending"],
              load |-> "pending",
              overlaps |-> \E k \in 1..Len(W.passes) : W.passes[k].load = "pending",
              order |-> [r \in Routines |-> 0]]
    IN  [W EXCEPT !.dom = d2, !.passes = Append(W.passes, q),
                  !.toasts = W.toasts \o errs]

\* Mutant: Promise.race in place of Promise.all.
ReadyAny(q, r) == \E s \in SlotsOf(r) : q.calls[s].st = "settled"

\* Promise.all of the four calls, or the single awaited call (lines 178, 207, 238).
Ready(q, r) == \A s \in SlotsOf(r) : q.calls[s].st = "settled"

NowReady(q, r) == q.routines[r] = "pending" /\ Ready(q, r)

Values(q) == [s \in Slots |-> FetchReturn(q.calls[s].out)]

RoutineSettles(r, pres) ==
    CASE r = "stats" -> "fulfilled"
      [] r = "schedule" -> ScheduleSettles(pres)
      [] r = "oncall" -> OnCallSettles(pres)

\* Promise.all of the three routines (line 169): rejected with the first
\* rejection, fulfilled once all three are.
LoadDataSettles(rts) ==
    IF \E r \in Routines : rts[r] = "rejected" THEN "rejected"
    ELSE IF \A r \in Routines : rts[r] = "fulfilled" THEN "fulfilled"
    ELSE "pending"

\* What runs once the awaited loadData has settled: the rest of init (lines
\* 12-14) or of refreshData (lines 269-285); a rejection ends either one.
Continue(W, owner, ld) ==
    IF owner.type = "init"
    THEN IF ld = "fulfilled"
         THEN [W EXCEPT !.ctrls[owner.id] = InitDone(@),
                        !.dom = UpdateLastUpdated(@, present)]
         ELSE [W EXCEPT !.ctrls[owner.id].init = "rejected"]
    ELSE IF ld = "fulfilled"
         THEN [W EXCEPT !.dom = UpdateLastUpdated(@, present),
                        !.toasts = Append(@, SuccessToast(RefreshSrc(owner.id))),
                        !.refreshes[owner.id].pc = "done"]
         ELSE [W EXCEPT !.refreshes[owner.id].pc = "rejected"]

\* How many passes have had their routine r settle.
SettledBefore(ps, r) ==
    Cardinality({k \in 1..Len(ps) : ps[k].routines[r] # "pending"})

\* The continuations of pass p that have become runnable: each routine whose
\* calls have all settled renders and settles, then loadData, then its awaiter.
DrainPass(W, p) ==
    LET q == W.passes[p]
        v == Values(q)
        d1 == IF NowReady(q, "stats") THEN RenderStats(W.dom, p, v, present) ELSE W.dom
        d2 == IF NowReady(q, "schedule")
              THEN RenderSchedule(d1, p, v["schedule"], present) ELSE d1
        d3 == IF NowReady(q, "oncall")
              THEN RenderOnCall(d2, p, v["oncall"], present) ELSE d2
        rts == [r \in Routines |->
                   IF NowReady(q, r) THEN RoutineSettles(r, present) ELSE q.routines[r]]
        ld == IF q.load = "pending" THEN LoadDataSettles(rts) ELSE q.load
        ord == [r \in Routines |->
                   IF NowReady(q, r) THEN SettledBefore(W.passes, r) + 1 ELSE q.order[r]]
        W1 == [W EXCEPT !.dom = d3, !.passes[p].routines = rts, !.passes[p].load = ld,
                        !.passes[p].order = ord]
    IN  IF q.load = "pending" /\ ld # "pending" THEN Continue(W1, q.owner, ld) ELSE W1

RECURSIVE DrainFrom(_, _)
DrainFrom(W, p) == IF p > Len(W.passes) THEN W ELSE DrainFrom(DrainPass(W, p), p + 1)

\* The microtask queue run to completion.
Drain(W) == DrainFrom(W, 1)

Commit(W) ==
    /\ dom' = W.dom
    /\ passes' = W.passes
    /\ toasts' = W.toasts
    /\ ctrls' = W.ctrls
    /\ refreshes' = W.refreshes

(***************************************************************************)
(* Initial state: the script has loaded, no controller exists yet.         *)
(***************************************************************************)
\* The install affordance #install-btn (btn: whether the page has it) with no
\* platform event emitted yet.
NoInstall(btn) ==
    [btn |-> btn, display |-> "none", events |-> <<>>, waiting |-> {},
     clicks |-> <<>>, installed |-> 0]

\* The page before its load event (sw: 'serviceWorker' in navigator).
NoWorker(sw) == [supported |-> sw, loaded |-> FALSE, registrations |-> <<>>]

Init ==
    /\ urlOk \in BOOLEAN
    /\ present \in {Targets \ m : m \in {x \in SUBSET Targets : Cardinality(x) <= MaxMissing}}
    /\ path \in {"home", "other"}
    /\ booted = FALSE
    /\ currentApp = 0
    /\ ctrls = <<>>
    /\ passes = <<>>
    /\ refreshes = <<>>
    /\ dom = [t \in Targets |-> Blank]
    /\ toasts = <<>>
    /\ dismissals = 0
    /\ install = NoInstall(TRUE)
    /\ worker = NoWorker(TRUE)

InFlight ==
    Cardinality({p \in 1..Len(passes) :
                    \E s \in Slots : passes[p].calls[s].st = "pending"})

\* Whether n more loadData passes may start now, with at most lim in flight.
MayStart(n, lim) ==
    /\ Len(passes) + n <= MaxPass
    /\ n = 0 \/ ~urlOk \/ InFlight + n <= lim

(***************************************************************************)
(* Actions.                                                                *)
(***************************************************************************)
\* The DOMContentLoaded listener, lines 289-301, with the constructor and init
\* of the controller it creates.
DOMContentLoaded ==
    /\ ~booted
    /\ booted' = TRUE
    /\ currentApp' = Len(ctrls) + 1
    /\ IF path = "home"
       THEN /\ MayStart(1, MaxInFlight)
            /\ LET c == Len(ctrls) + 1
                   W0 == [Here EXCEPT !.ctrls = Append(@, NewCtrl("home"))]
               IN  Commit(Drain(StartPass(W0, c, Owner("init", c))))
       ELSE LET c == Len(ctrls) + 1
                W0 == [Here EXCEPT !.ctrls = Append(@, NewCtrl("base"))]
            IN  Commit(Continue(W0, Owner("init", c), "fulfilled"))
    /\ UNCHANGED <<urlOk, present, path, dismissals, install, worker>>

\* refreshData, lines 266-286, up to its await and whatever follows at once,
\* invoked while fewer than lim passes are in flight.
Refresh(lim) ==
    /\ Len(refreshes) < MaxRefresh
    /\ LET r == Len(refreshes) + 1
           lazy == currentApp = 0
           c == IF lazy THEN Len(ctrls) + 1 ELSE currentApp
           variant == IF lazy THEN "home" ELSE ctrls[c].variant
           W0 == [Here EXCEPT !.refreshes = Append(@, [ctrl |-> c, pc |-> "loading"])]
           W1 == IF lazy
                 THEN StartPass([W0 EXCEPT !.ctrls = Append(@, NewCtrl("home"))],
                                c, Owner("init", c))
                 ELSE W0
       IN  /\ MayStart(IF lazy THEN 2 ELSE IF variant = "home" THEN 1 ELSE 0, lim)
           /\ IF variant = "home"
              THEN Commit(Drain(StartPass(W1, c, Owner("refresh", r))))
              ELSE Commit(Continue(W1, Owner("refresh", r), "fulfilled"))
    /\ UNCHANGED <<urlOk, present, path, booted, currentApp, dismissals,
                   install, worker>>

RefreshData == Refresh(MaxInFlight)

OddCount ==
    Cardinality({<<p, s>> \in (1..Len(passes)) \X Slots :
                    /\ passes[p].calls[s].st = "settled"
                    /\ passes[p].calls[s].out \notin {PlainResp, UrlFail}})

\* The response to call s of pass p arrives: the rest of fetchFromAPI (lines
\* 51-62) and the continuations it makes runnable.
Respond(p, s, o) ==
    /\ passes[p].calls[s].st = "pending"
    /\ o = PlainResp \/ OddCount < MaxOdd
    /\ LET W1 == [Here EXCEPT
                     !.passes[p].calls[s] = [st |-> "settled", out |-> o],
                     !.toasts = @ \o ShowError(o, CallSrc(p, s))]
       IN  Commit(Drain(W1))
    /\ UNCHANGED <<urlOk, present, path, booted, currentApp, dismissals,
                   install, worker>>

\* Timers of equal or shorter delay set earlier run earlier.
CanFire(i) ==
    \A j \in 1..(i - 1) : toasts[j].delay <= toasts[i].delay => toasts[j].timer = "fired"

\* Mutant: the callback names toast.remove without calling it.
TimerFireKeeps(i) ==
    /\ i \in 1..Len(toasts)
    /\ toasts[i].timer = "pending"
    /\ CanFire(i)
    /\ toasts' = [toasts EXCEPT ![i].timer = "fired"]
    /\ UNCHANGED <<urlOk, present, path, booted, currentApp, ctrls, passes,
                   refreshes, dom, dismissals, install, worker>>

\* The setTimeout callback of a toast (lines 90 and 285): toast.remove().
TimerFire(i) ==
    /\ i \in 1..Len(toasts)
    /\ toasts[i].timer = "pending"
    /\ CanFire(i)
    /\ toasts' = [toasts EXCEPT ![i].timer = "fired", ![i].attached = FALSE]
    /\ UNCHANGED <<urlOk, present, path, booted, currentApp, ctrls, passes,
                   refreshes, dom, dismissals, install, worker>>

\* A click on the close button of an error toast (line 72); the success toast
\* of refreshData has none.
Dismiss(i) ==
    /\ toasts[i].kind = "error"
    /\ toasts[i].attached
    /\ dismissals < MaxDismiss
    /\ dismissals' = dismissals + 1
    /\ toasts' = [toasts EXCEPT ![i].attached = FALSE]
    /\ UNCHANGED <<urlOk, present, path, booted, currentApp, ctrls, passes,
                   refreshes, dom, install, worker>>

Next ==
    \/ DOMContentLoaded
    \/ RefreshData
    \/ \E p \in 1..Len(passes) : \E s \in Slots : \E o \in Responses(s) : Respond(p, s, o)
    \/ \E i \in 1..Len(toasts) : TimerFire(i)
    \/ \E i \in 1..Len(toasts) : Dismiss(i)

Spec == Init /\ [][Next]_vars

\* The most toasts one behaviour creates: one per call and one per refresh.
MaxToasts == Cardinality(Slots) * MaxPass + MaxRefresh

\* The initial states with every render target on the page, or with only the
\* schedule list missing.
FairInit == Init /\ present \in {Targets, Targets \ {"today-schedule"}}

\* The browser runs every timer that is due.
FairSpec == FairInit /\ [][Next]_vars /\ \A i \in 1..MaxToasts : WF_vars(TimerFire(i))

(***************************************************************************)
(* The platform: installability, the install affordance, the page's load   *)
(* event and the offline-asset registration (lines 106-145).  Its events   *)
(* neither read nor write what loadData renders, so they are explored      *)
(* under a specification of their own, PlatformSpec, in which the endpoint *)
(* answers every call with {success:true, data:[]}.                        *)
(***************************************************************************)
\* beforeinstallprompt events in one behaviour.
MaxSignals == 2
\* Clicks on the install affordance in one behaviour.
MaxClicks == 2
\* appinstalled events in one behaviour.
MaxInstalled == 1

Ctrls == 1..Len(ctrls)

\* The controllers whose setupInstallPrompt has run (line 13).
Wired == {c \in Ctrls : ctrls[c].installWired}

\* A beforeinstallprompt event: the calls of its prompt() so far and the state
\* of its userChoice promise.
NewEvent == [prompts |-> 0, choice |-> "none"]
Resolved(e) == install.events[e].choice \in {"accepted", "dismissed"}

\* Mutant: the listener shows the affordance without keeping the event.
CaptureDropsEvent(c, e) ==
    [c EXCEPT !.listeners = IF install.btn THEN @ + 1 ELSE @]

\* The beforeinstallprompt listener of one controller (lines 124-138): it
\* keeps the event and, when the page has the affordance, adds one more click
\* listener to it.
Capture(c, e) ==
    [c EXCEPT !.deferredPrompt = Captured(e),
              !.listeners = IF install.btn THEN @ + 1 ELSE @]

\* The platform signals that the app can be installed.
BeforeInstallPrompt ==
    /\ Len(install.events) < MaxSignals
    /\ LET e == Len(install.events) + 1
       IN  /\ install' = [install EXCEPT
                            !.events = Append(@, NewEvent),
                            !.display = IF Wired # {} /\ install.btn THEN "flex" ELSE @]
           /\ ctrls' = [c \in Ctrls |->
                           IF c \in Wired THEN Capture(ctrls[c], e) ELSE ctrls[c]]
    /\ UNCHANGED <<urlOk, present, path, booted, currentApp, passes, refreshes,
                   dom, toasts, dismissals, worker>>

\* What the click listeners of one controller do in one click (lines 130-136):
\* each calls prompt() of the held event and waits for its userChoice.  With
\* no event held the call throws; with a userChoice that has already resolved
\* the first listener goes on at once and discards the reference, so the
\* later ones throw.
Prompted(c) ==
    IF c.deferredPrompt.is # "event" THEN 0
    ELSE IF Resolved(c.deferredPrompt.ev) THEN Min(1, c.listeners)
    ELSE c.listeners
NullDerefs(c) == c.listeners - Prompted(c)
Waits(c) ==
    c.listeners > 0 /\ c.deferredPrompt.is = "event" /\ ~Resolved(c.deferredPrompt.ev)
GoesOn(c) ==
    c.listeners > 0 /\ c.deferredPrompt.is = "event" /\ Resolved(c.deferredPrompt.ev)

RECURSIVE Sum(_, _)
Sum(f, S) == IF S = {} THEN 0 ELSE LET x == CHOOSE y \in S : TRUE
                                   IN  f[x] + Sum(f, S \ {x})

\* Mutant: the handler leaves the affordance on the page.
DiscardKeepsButton(i) == i

\* The end of a click handler and the appinstalled listener (lines 134-135 and
\* 142-143): with the reference discarded the affordance is hidden.
Discard(i) == [i EXCEPT !.display = "none"]

\* A click on the install affordance: every click listener added so far runs.
InstallClick ==
    /\ install.btn /\ install.display = "flex"
    /\ Len(install.clicks) < MaxClicks
    /\ LET calls == [e \in 1..Len(install.events) |->
                        Sum([c \in Ctrls |->
                                IF ctrls[c].deferredPrompt = Captured(e)
                                THEN Prompted(ctrls[c]) ELSE 0], Ctrls)]
           click == [prompts |-> Sum([c \in Ctrls |-> Prompted(ctrls[c])], Ctrls),
                     nulls |-> Sum([c \in Ctrls |-> NullDerefs(ctrls[c])], Ctrls)]
           i1 == [install EXCEPT
                    !.events = [e \in 1..Len(install.events) |->
                                   [prompts |-> @[e].prompts + calls[e],
                                    choice |-> IF @[e].choice = "none" /\ calls[e] > 0
                                               THEN "pending" ELSE @[e].choice]],
                    !.waiting = @ \cup {<<c, ctrls[c].deferredPrompt.ev>> :
                                            c \in {x \in Ctrls : Waits(ctrls[x])}},
                    !.clicks = Append(@, click)]
       IN  /\ install' = IF \E c \in Ctrls : GoesOn(ctrls[c]) THEN Discard(i1) ELSE i1
           /\ ctrls' = [c \in Ctrls |->
                           IF GoesOn(ctrls[c])
                           THEN [ctrls[c] EXCEPT !.deferredPrompt = NullPrompt]
                           ELSE ctrls[c]]
    /\ UNCHANGED <<urlOk, present, path, booted, currentApp, passes, refreshes,
                   dom, toasts, dismissals, worker>>

\* The user answers the prompt of event e: every handler waiting for its
\* userChoice goes on (lines 133-135).
ChoiceResolves(e, outcome) ==
    /\ e \in 1..Len(install.events)
    /\ install.events[e].choice = "pending"
    /\ LET woken == {w \in install.waiting : w[2] = e}
           i1 == [install EXCEPT !.events[e].choice = outcome,
                                 !.waiting = @ \ woken]
       IN  /\ install' = IF woken # {} THEN Discard(i1) ELSE i1
           /\ ctrls' = [c \in Ctrls |->
                           IF <<c, e>> \in woken
                           THEN [ctrls[c] EXCEPT !.deferredPrompt = NullPrompt]
                           ELSE ctrls[c]]
    /\ UNCHANGED <<urlOk, present, path, booted, currentApp, passes, refreshes,
                   dom, toasts, dismissals, worker>>

\* The platform signals that the app has been installed (lines 140-144).
AppInstalled ==
    /\ install.installed < MaxInstalled
    /\ LET i1 == [install EXCEPT !.installed = @ + 1]
       IN  install' = IF Wired # {} /\ install.btn THEN Discard(i1) ELSE i1
    /\ ctrls' = [c \in Ctrls |->
                    IF c \in Wired THEN [ctrls[c] EXCEPT !.deferredPrompt = NullPrompt]
                    ELSE ctrls[c]]
    /\ UNCHANGED <<urlOk, present, path, booted, currentApp, passes, refreshes,
                   dom, toasts, dismissals, worker>>

\* The load event of the page, which follows DOMContentLoaded: the listener of
\* every controller that has added one requests the registration (lines
\* 108-109).
PageLoad ==
    /\ booted
    /\ ~worker.loaded
    /\ LET hooked == SelectSeq([c \in Ctrls |-> c], LAMBDA c : ctrls[c].swHooked)
       IN  worker' = [worker EXCEPT
                        !.loaded = TRUE,
                        !.registrations =
                            @ \o [k \in 1..Len(hooked) |->
                                     [ctrl |-> hooked[k], st |-> "pending"]]]
    /\ UNCHANGED <<urlOk, present, path, booted, currentApp, ctrls, passes,
                   refreshes, dom, toasts, dismissals, install>>

\* The registration settles: either way it is only logged (lines 110-115).
RegistrationSettles(k, st) ==
    /\ k \in 1..Len(worker.registrations)
    /\ worker.registrations[k].st = "pending"
    /\ worker' = [worker EXCEPT !.registrations[k].st = st]
    /\ UNCHANGED <<urlOk, present, path, booted, currentApp, ctrls, passes,
                   refreshes, dom, toasts, dismissals, install>>

\* No controller yet, nothing rendered.
Fresh ==
    /\ booted = FALSE
    /\ currentApp = 0
    /\ ctrls = <<>>
    /\ passes = <<>>
    /\ refreshes = <<>>
    /\ dom = [t \in Targets |-> Blank]
    /\ toasts = <<>>
    /\ dismissals = 0

PlatformInit ==
    /\ urlOk \in BOOLEAN
    /\ present \in {Targets, Targets \ {"today-schedule"}}
    /\ path \in {"home", "other"}
    /\ Fresh
    /\ install \in {NoInstall(b) : b \in BOOLEAN}
    /\ worker \in {NoWorker(s) : s \in BOOLEAN}

PlatformNext ==
    \/ DOMContentLoaded
    \/ RefreshData
    \/ \E p \in 1..Len(passes) : \E s \in Slots : Respond(p, s, PlainResp)
    \/ BeforeInstallPrompt
    \/ InstallClick
    \/ \E e \in 1..Len(install.events) : \E o \in {"accepted", "dismissed"} :
            ChoiceResolves(e, o)
    \/ AppInstalled
    \/ PageLoad
    \/ \E k \in 1..Len(worker.registrations) : \E st \in {"registered", "failed"} :
            RegistrationSettles(k, st)

PlatformSpec == PlatformInit /\ [][PlatformNext]_vars

(***************************************************************************)
(* Overlapping passes: refreshData invoked while an earlier loadData still *)
(* waits for responses, on the dashboard page with every render target.    *)
(***************************************************************************)
OverlapInit ==
    /\ urlOk = TRUE
    /\ present = Targets
    /\ path = "home"
    /\ Fresh
    /\ install = NoInstall(TRUE)
    /\ worker = NoWorker(TRUE)

\* The responses explored with overlapping passes: the empty list, and for the
\* notifications and both lists a response that shows when rendered.
OverlapResponses(s) ==
    {PlainResp} \cup
    {Resp("data", "", d) :
        d \in CASE s = "notifications" -> {<<Note("Pending")>>, <<Note("Pending"), NoteNull>>}
               [] s = "schedule" -> {<<EntENT>>}
               [] s = "oncall" -> {<<Call(DToday)>>}
               [] OTHER -> {}}

OverlapNext ==
    \/ DOMContentLoaded
    \/ Refresh(MaxPass)
    \/ \E p \in 1..Len(passes) : \E s \in Slots : \E o \in OverlapResponses(s) :
            Respond(p, s, o)

OverlapSpec == OverlapInit /\ [][OverlapNext]_vars

(***************************************************************************)
(* Claims.                                                                 *)
(***************************************************************************)
Passes == 1..Len(passes)
Settled(p, s) == passes[p].calls[s].st = "settled"
Outcome(p, s) == passes[p].calls[s].out
\* The value call s of pass p handed to the routine that awaited it.
Returned(p, s) == Values(passes[p])[s]
ToastsOf(src) == {i \in 1..Len(toasts) : toasts[i].src = src}
Contains(text, m) == \E i \in 1..Len(text) : text[i] = m

\* C1: fetchFromAPI never raises and its awaited result is always a sequence,
\* empty on every failure, for every outcome of the request: a bad URL, a
\* non-success status, a malformed body, success=false, and success=true with
\* or without a data field.
C1_AlwaysSequence ==
    \A p \in Passes : \A s \in Slots :
        Settled(p, s) =>
            /\ Returned(p, s).isSeq
            /\ Throws(Outcome(p, s)) => Returned(p, s).items = <<>>

\* C2: a failing call (bad status, malformed body, or {success:false,
\* message:X}) creates exactly one error notification, whose text contains X in
\* the envelope case, and returns the empty sequence; a successful call and a
\* pending call create none.  So the error notifications of one pass are as
\* many as its failed calls.
C2_OneToastPerFailure ==
    \A p \in Passes :
        /\ \A s \in Slots :
            LET mine == ToastsOf(CallSrc(p, s))
                failed == Settled(p, s)
                            /\ Outcome(p, s).kind \in {"urlfail", "http", "malformed", "apierr"}
            IN  /\ Cardinality(mine) = IF failed THEN 1 ELSE 0
                /\ failed => Returned(p, s) = Arr(<<>>)
                /\ \A i \in mine :
                    /\ toasts[i].kind = "error"
                    /\ Outcome(p, s).kind = "apierr"
                         => Contains(toasts[i].text, Outcome(p, s).msg)
        /\ Cardinality({i \in 1..Len(toasts) :
                            toasts[i].kind = "error" /\ toasts[i].src.id = p})
             = Cardinality({s \in Slots : Settled(p, s) /\ Throws(Outcome(p, s))})

\* A pass in which one call failed with the envelope message X while another
\* call of the same pass succeeded with data.
C2_Witness ==
    \E p \in Passes : \E s, s2 \in Slots :
        /\ Settled(p, s) /\ Outcome(p, s) = Resp("apierr", "X", <<>>)
        /\ \E i \in ToastsOf(CallSrc(p, s)) : Contains(toasts[i].text, "X")
        /\ Settled(p, s2) /\ Outcome(p, s2) = PlainResp
        /\ ToastsOf(CallSrc(p, s2)) = {}

\* C3: a missing render target degrades silently: each of loadStats,
\* loadTodaySchedule and loadOnCallToday still fulfils (never rejects) when a
\* target it writes is absent from the page, whatever its calls returned.
C3_MissingTargetFulfils ==
    \A p \in Passes : \A r \in Routines :
        (\A s \in SlotsOf(r) : Settled(p, s)) => passes[p].routines[r] = "fulfilled"

\* Whether routine r of pass p hit a failure while rendering: a target it
\* writes is missing, or a record of its data is malformed.
RenderFailure(p, r) ==
    /\ \A s \in SlotsOf(r) : Settled(p, s)
    /\ CASE r = "stats" -> CountTargets \ present # {} \/ HasNull(Returned(p, "notifications"))
         [] r = "schedule" -> "today-schedule" \notin present \/ HasNull(Returned(p, "schedule"))
         [] r = "oncall" -> \/ "on-call-today" \notin present
                            \/ HasNull(Returned(p, "oncall"))
                            \/ \E i \in 1..Len(Returned(p, "oncall").items) :
                                    ~Returned(p, "oncall").items[i].Date.valid

\* C4: a render failure in one routine is contained in it: the sibling
\* routines still complete, and the enclosing loadData still completes once
\* all calls have settled.
C4_RenderFailureContained ==
    \A p \in Passes : \A r \in Routines :
        RenderFailure(p, r) =>
            /\ \A r2 \in Routines \ {r} :
                (\A s \in SlotsOf(r2) : Settled(p, s)) => passes[p].routines[r2] # "pending"
            /\ (\A s \in Slots : Settled(p, s)) => passes[p].load = "fulfilled"

RefreshPasses(r) == {p \in Passes : passes[p].owner = Owner("refresh", r)}

\* C5: every refresh trigger, once the calls of its loadData have settled,
\* has updated the timestamp and then shown exactly one success notification,
\* and only after its loadData completed, whatever the calls returned and
\* whichever render targets exist.
C5_RefreshCompletes ==
    \A r \in 1..Len(refreshes) :
        LET shown == {i \in ToastsOf(RefreshSrc(r)) : toasts[i].kind = "success"}
        IN  /\ (\A p \in RefreshPasses(r) : \A s \in Slots : Settled(p, s))
                => /\ refreshes[r].pc = "done"
                   /\ Cardinality(shown) = 1
                   /\ "last-updated" \in present => dom["last-updated"].k = "time"
            /\ shown # {} => \A p \in RefreshPasses(r) : passes[p].load = "fulfilled"

\* Whether every call of routine r of pass p has been made.
Issued(p, r) == \A s \in SlotsOf(r) : passes[p].calls[s].st # "unissued"

\* C6: fan-out and fan-in of loadData: once any call of a pass has settled all
\* six have been issued, once any routine has completed all three have been
\* started, and loadData has completed only if all three routines have.
C6_FanOutFanIn ==
    \A p \in Passes :
        /\ (\E s \in Slots : Settled(p, s)) => \A r \in Routines : Issued(p, r)
        /\ (\E r \in Routines : passes[p].routines[r] # "pending")
                => \A r \in Routines : Issued(p, r)
        /\ passes[p].load = "fulfilled"
                => \A r \in Routines : passes[p].routines[r] = "fulfilled"

\* One routine has completed while the call of another is still pending.
C6_Witness ==
    \E p \in Passes :
        /\ passes[p].routines["schedule"] = "fulfilled"
        /\ passes[p].calls["oncall"].st = "pending"
        /\ \E s \in SlotsOf("stats") : Settled(p, s)
        /\ \E s \in SlotsOf("stats") : passes[p].calls[s].st = "pending"

TargetsOf(r) ==
    CASE r = "stats" -> CountTargets
      [] r = "schedule" -> {"today-schedule"}
      [] r = "oncall" -> {"on-call-today"}

\* C7 as stated: no write to a routine's render targets happens before all of
\* that routine's awaited calls have settled.
C7_NoWriteBeforeSettle ==
    \A p \in Passes : \A r \in Routines : \A t \in TargetsOf(r) :
        dom[t].by = p => \A s \in SlotsOf(r) : Settled(p, s)

\* C7 as amended: the only write to a routine's render targets before all of
\* its awaited calls have settled is the loading placeholder that
\* loadTodaySchedule and loadOnCallToday show before they make their call.
C7_OnlyLoadingBeforeSettle ==
    \A p \in Passes : \A r \in Routines : \A t \in TargetsOf(r) :
        /\ dom[t].by = p /\ dom[t].k # "loading" => \A s \in SlotsOf(r) : Settled(p, s)
        /\ dom[t].by = p /\ dom[t].k = "loading" => r # "stats"

\* A pass has rendered its roster and its counts, and another target still
\* shows the loading placeholder of a pass whose call is pending.
C7_Witness ==
    \E p \in Passes :
        /\ dom["today-schedule"].by = p /\ dom["today-schedule"].k = "items"
        /\ dom["doctor-count"].by = p
        /\ dom["on-call-today"].by = p /\ dom["on-call-today"].k = "loading"
        /\ passes[p].calls["oncall"].st = "pending"

SlotTarget(s) ==
    CASE s = "doctors" -> "doctor-count"
      [] s = "clinics" -> "clinic-count"
      [] s = "roster" -> "roster-count"
      [] s = "notifications" -> "notification-count"
      [] s = "schedule" -> "today-schedule"
      [] s = "oncall" -> "on-call-today"

\* C8: a success envelope without a data field is rendered as an empty
\* sequence: count 0 by loadStats, the no-data placeholder by
\* loadTodaySchedule and loadOnCallToday, never the error placeholder.
C8_NoDataIsEmpty ==
    \A p \in Passes : \A s \in Slots :
        LET t == SlotTarget(s)
        IN  (/\ \A s2 \in SlotsOf(RoutineOf(s)) : Settled(p, s2)
             /\ Outcome(p, s).kind = "nodata"
             /\ dom[t].by = p)
            => IF RoutineOf(s) = "stats"
               THEN dom[t].k = "count" /\ dom[t].n = 0
               ELSE dom[t].k = "no-data"

\* C9: every notification is removed in the end, by its own timer of 5000
\* (error) or 3000 (success) or by its own dismissal; a timer that runs after
\* the dismissal changes nothing, and no step removes a notification other
\* than the one whose timer ran or whose close button was clicked.
C9_ToastsRemoved ==
    /\ [](\A i \in 1..Len(toasts) :
            /\ toasts[i].delay = IF toasts[i].kind = "error" THEN 5000 ELSE 3000
            /\ toasts[i].timer = "fired" => ~toasts[i].attached)
    /\ [][\A i \in 1..Len(toasts) :
            toasts[i].attached /\ ~toasts'[i].attached
                => /\ \/ toasts[i].timer = "pending" /\ toasts'[i].timer = "fired"
                      \/ dismissals' = dismissals + 1 /\ toasts[i].kind = "error"
                   /\ \A j \in 1..Len(toasts) \ {i} : toasts'[j].attached = toasts[j].attached]_vars
    /\ \A i \in 1..MaxToasts :
            (i <= Len(toasts) /\ toasts[i].attached)
                ~> (i <= Len(toasts) /\ ~toasts[i].attached /\ toasts[i].timer = "fired")

\* Two notifications are displayed at once, a third was dismissed by hand and
\* its timer has run since.
C9_Witness ==
    \E i, j, k \in 1..Len(toasts) :
        /\ i # j /\ toasts[i].attached /\ toasts[j].attached
        /\ toasts[i].kind = "error" /\ toasts[j].kind = "success"
        /\ dismissals = 1 /\ toasts[k].timer = "fired"
        /\ \A m \in 1..Len(toasts) \ {k} :
                toasts[m].attached /\ toasts[m].timer = "pending"

\* The records of the Notifications response of pass p: none when the call
\* failed or the envelope had no data.
NotificationRecords(p) ==
    IF Outcome(p, "notifications").kind = "data"
    THEN Outcome(p, "notifications").data ELSE <<>>

\* C10: the value loadStats writes to notification-count is the number of
\* records of the Notifications response whose Status is exactly "Pending";
\* 0 for the empty response and the failed call.  It writes it whenever the
\* four count targets exist and no record is malformed.
C10_PendingCount ==
    \A p \in Passes :
        LET recs == NotificationRecords(p)
            written == dom["notification-count"]
        IN  /\ written.by = p
                => /\ written.k = "count"
                   /\ written.n = Cardinality({i \in 1..Len(recs) : recs[i].Status = "Pending"})
            /\ (/\ \A s \in SlotsOf("stats") : Settled(p, s)
                /\ CountTargets \subseteq present
                /\ \A i \in 1..Len(recs) : ~recs[i].null)
                => written.by \in Passes

\* notification-count shows 1 for a response with one "pending" and one
\* "Pending" record.
C10_Witness ==
    \E p \in Passes :
        /\ dom["notification-count"].by = p
        /\ dom["notification-count"].n = 1
        /\ NotificationRecords(p) = <<Note("pending"), Note("Pending")>>

\* The calendar day of a date in the browser's local time zone.
LocalDay(dt) == dt.localDay
IsLocalToday(e) == e.Date.valid /\ LocalDay(e.Date) = LocalDay(Now)

\* C11: for every call roster the CallRoster call returned, on-call-today
\* shows exactly the entries whose Date falls on the current calendar day in
\* local time, in their original order, and the no-duty placeholder iff no
\* entry does (every Date of the roster being one that parses).
C11_LocalDayFilter ==
    \A p \in Passes :
        (/\ "on-call-today" \in present
         /\ dom["on-call-today"].by = p
         /\ Settled(p, "oncall")
         /\ Outcome(p, "oncall").kind = "data"
         /\ ~OnCallThrows(Returned(p, "oncall")))
        => LET shown == dom["on-call-today"]
               today == SelectSeq(Outcome(p, "oncall").data, IsLocalToday)
           IN  IF today = <<>> THEN shown.k = "no-data"
               ELSE /\ shown.k = "items"
                    /\ shown.items = [i \in 1..Len(today) |-> OnCallItem(today[i])]

\* The names of a Consultants field the claim calls its first two: none when
\* the record has no such field.
FirstTwoNames(c) == IF c.isStr THEN SubSeq(c.names, 1, Min(2, Len(c.names))) ELSE <<>>

\* C12: for a non-empty roster of records, today-schedule shows one item per
\* entry, in order: the clinic name, the first two consultant names, the
\* continuation marker, and a badge that is the entry's Status, or "Pending"
\* when the entry has none.
C12_ScheduleItems ==
    \A p \in Passes :
        (/\ "today-schedule" \in present
         /\ dom["today-schedule"].by = p
         /\ Settled(p, "schedule")
         /\ Outcome(p, "schedule").kind = "data"
         /\ Outcome(p, "schedule").data # <<>>
         /\ ~HasNull(Returned(p, "schedule")))
        => LET shown == dom["today-schedule"]
               roster == Outcome(p, "schedule").data
           IN  /\ shown.k = "items"
               /\ Len(shown.items) = Len(roster)
               /\ \A i \in 1..Len(roster) :
                    /\ shown.items[i].title = roster[i].Clinic
                    /\ shown.items[i].names = FirstTwoNames(roster[i].Consultants)
                    /\ shown.items[i].marker = "..."
                    /\ shown.items[i].badge =
                         IF roster[i].Status = Absent THEN "Pending" ELSE roster[i].Status

\* The loadData passes that init of controller c awaits (line 11).
InitPasses(c) == {p \in Passes : passes[p].owner = Owner("init", c)}

\* C13: controller lifecycle: once loadData of a controller has started, all
\* listener wiring of the base controller (navigation toggle, install-prompt
\* listeners, offline-asset registration hook) is complete; and the controller
\* is Ready, with the timestamp written, only after its loadData completed.
\* A controller whose init was ended by a rejecting loadData is left aside.
C13_WiringBeforeLoad ==
    \A c \in Ctrls :
        /\ InitPasses(c) # {} /\ ctrls[c].init # "rejected"
             => /\ ctrls[c].navWired
                /\ ctrls[c].installWired
                /\ worker.supported => ctrls[c].swHooked
        /\ ctrls[c].phase = "Ready"
             => /\ \A p \in InitPasses(c) : passes[p].load = "fulfilled"
                /\ "last-updated" \in present => dom["last-updated"].k = "time"

\* The install-prompt machine is Resolved: no controller holds a prompt
\* reference and the install affordance is hidden.
InstallResolved ==
    /\ install.display = "none"
    /\ \A c \in Ctrls : ctrls[c].deferredPrompt.is # "event"

\* The controllers with a click handler waiting for the userChoice of event e.
WaitingFor(e) == {c \in Ctrls : <<c, e>> \in install.waiting}

\* C14: whenever the user's choice on a shown prompt resolves, accepted or
\* dismissed, every controller whose handler showed it has discarded its
\* prompt reference and the install affordance is hidden; and whenever the
\* platform emits the installed signal, in whatever state, the step ends with
\* every reference discarded and the affordance hidden.
C14_InstallResolution ==
    [][/\ \A e \in 1..Len(install.events) :
            (install.events[e].choice = "pending"
                /\ install'.events[e].choice \in {"accepted", "dismissed"})
            => /\ install'.display = "none"
               /\ \A c \in WaitingFor(e) : ctrls'[c].deferredPrompt = NullPrompt
       /\ install'.installed # install.installed => InstallResolved']_vars

\* The installed signal has arrived while a user choice was pending and a
\* further installability signal had been captured, and the affordance, shown
\* before, is hidden.
C14_Witness ==
    /\ install.installed = 1
    /\ Len(install.events) = 2
    /\ install.events[1].choice = "pending"
    /\ install.events[2].choice = "none"
    /\ install.display = "none"
    /\ \E c \in Ctrls : ctrls[c].listeners = 2 /\ ctrls[c].deferredPrompt = NullPrompt

\* C15: for every controller on a platform with offline-asset support the
\* registration has been requested, exactly once, by the time both the page's
\* load event and the controller's init are over, however long loadData took;
\* it is never requested twice, and no notification stems from it.
C15_RegistrationRequested ==
    \A c \in Ctrls :
        LET mine == {k \in 1..Len(worker.registrations) : worker.registrations[k].ctrl = c}
        IN  /\ (worker.supported /\ worker.loaded /\ ctrls[c].init = "fulfilled")
                 => Cardinality(mine) = 1
            /\ Cardinality(mine) <= 1
            /\ \A i \in 1..Len(toasts) : toasts[i].src.type \in {"call", "refresh"}

\* C18: the install affordance is visible only while a captured prompt
\* reference is held.
C18_VisibleImpliesHeld ==
    install.display = "flex" => \E c \in Ctrls : ctrls[c].deferredPrompt.is = "event"

\* The affordance is visible again, after a further installability signal,
\* while the choice on the prompt an earlier click showed is still pending.
C18_Witness ==
    /\ install.display = "flex"
    /\ install.waiting # {}
    /\ \E c \in Ctrls : ctrls[c].deferredPrompt = Captured(2)
    /\ install.events[1].choice = "pending"

\* C19: with one controller on the page, each click on the install affordance
\* calls prompt() of the captured event exactly once and never dereferences a
\* discarded or unset reference, however many installability signals came
\* before.
C19_PromptOncePerClick ==
    Len(ctrls) = 1 =>
        \A k \in 1..Len(install.clicks) :
            install.clicks[k].prompts = 1 /\ install.clicks[k].nulls = 0

\* The pass whose routine r settled last.
LastSettled(r) ==
    CHOOSE p \in Passes : \A q \in Passes : passes[q].order[r] <= passes[p].order[r]

\* What routine r of pass p renders into its list target from its response.
ListRendering(p, r) ==
    IF r = "schedule"
    THEN RenderSchedule(dom, p, Returned(p, "schedule"), present)["today-schedule"]
    ELSE RenderOnCall(dom, p, Returned(p, "oncall"), present)["on-call-today"]

\* C16: when a loadData pass started before an earlier one had completed,
\* then once all calls have settled each list target holds the rendering of
\* the response that settled last for its routine, and the four count targets
\* hold the values of one single loadStats pass.
C16_WholeTargetOverwrites ==
    (/\ \E p \in Passes : passes[p].overlaps
     /\ \A p \in Passes : \A s \in Slots : Settled(p, s))
    => /\ dom["today-schedule"] = ListRendering(LastSettled("schedule"), "schedule")
       /\ dom["on-call-today"] = ListRendering(LastSettled("oncall"), "oncall")
       /\ \E p \in Passes : \A t \in CountTargets :
            dom[t] = Content("count", StatsValue(Values(passes[p]), t), <<>>, p)

PassesOn(c) == {p \in Passes : passes[p].ctrl = c}
RefreshesOn(c) == {r \in 1..Len(refreshes) : refreshes[r].ctrl = c}

\* C17: at most one controller issues loads; the controller a refresh used,
\* built by it when there was none, is the active controller; and each
\* refresh trigger causes exactly one loadData pass on it: a dashboard
\* controller has run one pass per refresh, and one more for its own start
\* when the bootstrap built it.
C17_SingleActiveController ==
    /\ Cardinality({passes[p].ctrl : p \in Passes}) <= 1
    /\ \A r \in 1..Len(refreshes) : currentApp = refreshes[r].ctrl
    /\ \A c \in Ctrls :
        ctrls[c].variant = "home"
            => Cardinality(PassesOn(c)) =
                 Cardinality(RefreshesOn(c)) + (IF c = currentApp THEN 1 ELSE 0)

\* The number of entries today-schedule shows: 0 for a placeholder.
ShownEntries == IF dom["today-schedule"].k = "items" THEN Len(dom["today-schedule"].items) ELSE 0

\* C20: after a single loadData pass has completed on a page with every
\* render target, roster-count shows the number of entries today-schedule
\* renders, whatever the calls of the pass returned.
C20_RosterCountMatchesSchedule ==
    (/\ present = Targets
     /\ Len(passes) = 1
     /\ passes[1].load = "fulfilled")
    => /\ dom["roster-count"].k = "count"
       /\ dom["roster-count"].n = ShownEntries

====
